---- MODULE Spec2Model ----
(***************************************************************************)
(* The Data Navigator page (pages/03_Data.py) as a state machine.  One     *)
(* Streamlit session runs the page script top to bottom; sessions of the   *)
(* same or of different users run concurrently and share only the SQLite   *)
(* files under ./data/.  Text that the code takes apart (table names, file *)
(* paths, column names) is a sequence of one-character strings; the cells  *)
(* of an uploaded file are strings; a number is held in halves (the        *)
(* integer k stands for k/2) so that a median of two whole numbers is      *)
(* exact.                                                                  *)
(***************************************************************************)
EXTENDS Integers, Sequences, FiniteSets, TLC

VARIABLES
    fs,             \* the SQLite files: path -> (table name -> stored columns)
    initial_df,     \* the template frame, load_initial_data()
    username,       \* session -> st.session_state['username']
    uploaded_file,  \* session -> the file_uploader widget's value
    pc,             \* session -> where its script run stands
    df,             \* session -> the frame the page works on
    table_name,     \* session -> save_uploaded_file_as_sqlite's table_name
    ret,            \* session -> what save_uploaded_file_as_sqlite returned
    msgs,           \* session -> messages shown in this run
    runs,           \* session -> script runs started so far
    widgets,        \* session -> the filter widgets' values
    filtered_data,  \* session -> the filtered view
    summary,        \* session -> the summaries computed in this run
    exported        \* session -> the download payloads offered in this run

vars == <<fs, initial_df, username, uploaded_file, pc, df, table_name, ret,
          msgs, runs, widgets, filtered_data, summary, exported>>

-----------------------------------------------------------------------------
(* Bounds *)

\* Rows of the template and of the uploads enumerated for the cleaning.
NumRows == 4

\* Rows of the uploads enumerated for the store and for the filters.
ViewRows == 2

\* Reruns of the script a session may start.
MaxRuns == 1

Sessions == {1, 2, 3}

-----------------------------------------------------------------------------
(* Text *)

DigitChars == <<"0", "1", "2", "3", "4", "5", "6", "7", "8", "9">>
LowerChars == <<"a", "b", "c", "d", "e", "f", "g", "h", "i", "j", "k", "l", "m",
                "n", "o", "p", "q", "r", "s", "t", "u", "v", "w", "x", "y", "z">>
UpperChars == <<"A", "B", "C", "D", "E", "F", "G", "H", "I", "J", "K", "L", "M",
                "N", "O", "P", "Q", "R", "S", "T", "U", "V", "W", "X", "Y", "Z">>

Range(f) == {f[i] : i \in DOMAIN f}

\* str.startswith
StartsWith(s, p) == Len(p) <= Len(s) /\ SubSeq(s, 1, Len(p)) = p

\* str.find, 1-based; 0 when sep does not occur
Find(s, sep) ==
    LET hits == {i \in 1..(Len(s) - Len(sep) + 1) : SubSeq(s, i, i + Len(sep) - 1) = sep}
    IN  IF hits = {} THEN 0 ELSE CHOOSE i \in hits : \A j \in hits : i <= j

\* str.split(sep): the pieces between the occurrences of sep, left to right
RECURSIVE Split(_, _)
Split(s, sep) ==
    LET i == Find(s, sep)
    IN  IF i = 0 THEN <<s>>
        ELSE <<SubSeq(s, 1, i - 1)>> \o Split(SubSeq(s, i + Len(sep), Len(s)), sep)

IsDigits(s) == Len(s) > 0 /\ \A i \in 1..Len(s) : s[i] \in Range(DigitChars)

DigitVal(c) == (CHOOSE i \in 1..Len(DigitChars) : DigitChars[i] = c) - 1

\* int(text) of a digit string
RECURSIVE IntOf(_)
IntOf(s) ==
    IF s = <<>> THEN 0
    ELSE IntOf(SubSeq(s, 1, Len(s) - 1)) * 10 + DigitVal(s[Len(s)])

\* str(n) of a natural number
RECURSIVE StrOf(_)
StrOf(n) ==
    IF n < 10 THEN <<DigitChars[n + 1]>>
    ELSE StrOf(n \div 10) \o <<DigitChars[(n % 10) + 1]>>

\* str.zfill(width)
RECURSIVE zfill(_, _)
zfill(s, width) == IF Len(s) >= width THEN s ELSE zfill(<<"0">> \o s, width)

\* max of a non-empty set of integers
Max(S) == CHOOSE m \in S : \A x \in S : x <= m
Min(S) == CHOOSE m \in S : \A x \in S : m <= x

-----------------------------------------------------------------------------
(* Values and frames *)

NaN == [t |-> "nan", s |-> "", n |-> 0]
Str(s) == [t |-> "str", s |-> s, n |-> 0]
\* the number k/2
Num(k) == [t |-> "num", s |-> "", n |-> k]
Whole(v) == Num(2 * v)
Bool(c) == [t |-> "bool", s |-> c, n |-> 0]

\* The numerals that occur in the enumerated uploads, with their values:
\* what the parsers of read_csv and pd.to_numeric make of them.
NumeralValue(c) ==
    CASE c = "0" -> 0 [] c = "1" -> 1 [] c = "2" -> 2 [] c = "3" -> 3
      [] c = "10" -> 10 [] c = "20" -> 20 [] c = "30" -> 30 [] c = "40" -> 40
IsNumeral(c) == c \in {"0", "1", "2", "3", "10", "20", "30", "40"}

RangeIndex(n) == [name |-> <<>>, vals |-> [i \in 1..n |-> Whole(i - 1)]]

NoDf == [index |-> RangeIndex(0), cols |-> <<>>]

NRows(d) == Len(d.index.vals)
columns(d) == [i \in 1..Len(d.cols) |-> d.cols[i].name]
ColIndex(d, name) == CHOOSE i \in 1..Len(d.cols) : d.cols[i].name = name
HasCol(d, name) == \E i \in 1..Len(d.cols) : d.cols[i].name = name

\* DataFrame.empty: no rows or no columns
IsEmpty(d) == NRows(d) = 0 \/ Len(d.cols) = 0

\* The dtype read_csv / read_excel infers for a column of cells.
InferDtype(cells) ==
    IF Len(cells) = 0 THEN "object"
    ELSE IF \A i \in 1..Len(cells) : cells[i] \in {"True", "False"} THEN "bool"
    ELSE IF \A i \in 1..Len(cells) : cells[i] = "" \/ IsNumeral(cells[i])
         THEN IF \E i \in 1..Len(cells) : cells[i] = "" THEN "float64" ELSE "int64"
         ELSE "object"

ParseCell(c, dtype) ==
    IF c = "" THEN NaN
    ELSE IF dtype = "object" THEN Str(c)
    ELSE IF dtype = "bool" THEN Bool(c)
    ELSE Whole(NumeralValue(c))

\* pd.read_csv / pd.read_excel on a readable payload
ReadTable(content, nrows) ==
    [index |-> RangeIndex(nrows),
     cols |-> [i \in 1..Len(content) |->
                 LET dt == InferDtype(content[i].cells)
                 IN  [name |-> content[i].name, dtype |-> dt,
                      vals |-> [r \in 1..Len(content[i].cells) |->
                                  ParseCell(content[i].cells[r], dt)]]]]

\* The uploaded file: present (a file is selected), ext (its name's extension),
\* readable (the payload parses), content (its columns of cells), nrows.
NoFile == [present |-> FALSE, ext |-> "", readable |-> FALSE, content |-> <<>>, nrows |-> 0]
File(ext, content, nrows) ==
    [present |-> TRUE, ext |-> ext, readable |-> TRUE, content |-> content, nrows |-> nrows]
Garbage(ext) ==
    [present |-> TRUE, ext |-> ext, readable |-> FALSE, content |-> <<>>, nrows |-> 0]

\* The two branches on file.name.endswith, and the parse: TRUE when a frame results.
Parses(file) == file.ext \in {"csv", "xlsx"} /\ file.readable
Parsed(file) == ReadTable(file.content, file.nrows)

-----------------------------------------------------------------------------
(* validate_data_structure *)

\* Variant: the mapping has no entry for float64.
dtype_mapping_no_float(d) ==
    CASE d \in {"object", "category"} -> "Categorical"
      [] d = "int64" -> "Numerical"
      [] OTHER -> d

\* Lines 82-88
dtype_mapping(d) ==
    CASE d \in {"object", "category"} -> "Categorical"
      [] d \in {"int64", "float64"} -> "Numerical"
      [] OTHER -> d

standardize_dtypes(d) == [i \in 1..Len(d.cols) |-> dtype_mapping(d.cols[i].dtype)]

validate_data_structure(uploaded_df, template_df) ==
    IF columns(uploaded_df) # columns(template_df) THEN FALSE
    ELSE IF standardize_dtypes(uploaded_df) # standardize_dtypes(template_df) THEN FALSE
    ELSE TRUE

-----------------------------------------------------------------------------
(* The template and the enumerated uploads *)

user_id == <<"u", "s", "e", "r", "_", "i", "d">>
REGION == <<"R", "E", "G", "I", "O", "N">>
MONTANT == <<"M", "O", "N", "T", "A", "N", "T">>
REGULARITY == <<"R", "E", "G", "U", "L", "A", "R", "I", "T", "Y">>
CHURN == <<"C", "H", "U", "R", "N">>

IdCells(n) == [i \in 1..n |-> <<"id1", "id2", "id3", "id4", "id5">>[((i - 1) % 5) + 1]]
RegionCells(n) == [i \in 1..n |-> IF i % 2 = 1 THEN "DAKAR" ELSE "THIES"]
MontantCells(n) == [i \in 1..n |-> <<"10", "30", "20", "40">>[((i - 1) % 4) + 1]]
RegularityCells(n) == [i \in 1..n |-> IF i % 2 = 1 THEN "1" ELSE "2"]
ChurnCells(n) == [i \in 1..n |-> IF i % 2 = 1 THEN "Yes" ELSE "No"]

Column(name, cells) == [name |-> name, cells |-> cells]

\* An upload in the template's shape, n rows.
DefaultContent(n) ==
    <<Column(user_id, IdCells(n)), Column(REGION, RegionCells(n)),
      Column(MONTANT, MontantCells(n)), Column(REGULARITY, RegularityCells(n)),
      Column(CHURN, ChurnCells(n))>>

\* The same with one column's cells replaced.
WithCells(content, name, cells) ==
    [i \in 1..Len(content) |->
        IF content[i].name = name THEN Column(name, cells) ELSE content[i]]

\* ./data/CAP_template.csv: a top-up amount is missing in its second row, so
\* MONTANT is read as float64; CHURN is text.
TemplateMontant(n) == [i \in 1..n |-> IF i = 2 THEN "" ELSE MontantCells(n)[i]]
Template ==
    ReadTable(WithCells(DefaultContent(NumRows), MONTANT, TemplateMontant(NumRows)),
              NumRows)

\* The same file with CHURN held as 0 and 1, read as int64.
NumberChurnCells(n) == [i \in 1..n |-> IF i % 2 = 1 THEN "1" ELSE "0"]
TemplateNumbers ==
    ReadTable(WithCells(WithCells(DefaultContent(NumRows), MONTANT, TemplateMontant(NumRows)),
                        CHURN, NumberChurnCells(NumRows)),
              NumRows)

-----------------------------------------------------------------------------
(* save_uploaded_file_as_sqlite *)

DataDir == <<".", "/", "d", "a", "t", "a", "/">>
TableInfix == <<"_", "t", "a", "b", "l", "e">>

save_dir(u) == DataDir \o u

\* Variant: one database file for all users.
db_path_shared(u) == DataDir \o <<"d", "a", "t", "a", ".", "d", "b">>

db_path(u) == save_dir(u) \o <<"/">> \o u \o <<".", "d", "b">>

EmptyDb == [t \in {} |-> <<>>]

\* os.makedirs(exist_ok=True) and sqlite3.connect: the file exists afterwards.
Connect(files, path) ==
    IF path \in DOMAIN files THEN files
    ELSE [p \in DOMAIN files \cup {path} |-> IF p = path THEN EmptyDb ELSE files[p]]

\* SELECT name FROM sqlite_master WHERE type='table'
existing_tables(files, path) == DOMAIN files[path]

user_tables(existing, u) == {t \in existing : StartsWith(t, u \o TableInfix)}

Suffix(t, u) == Split(t, u \o TableInfix)[2]

next_table_num(tables, u) ==
    IF tables # {}
    THEN Max({IntOf(Suffix(t, u)) : t \in tables}) + 1
    ELSE 1

\* Variant: padded one digit wider than the number.
pad_length_wider(num) == Len(StrOf(num)) + 1

pad_length(num) == Len(StrOf(num))

TableName(u, num) == u \o TableInfix \o zfill(StrOf(num), pad_length(num))

\* Variant: the write refuses an existing table.
if_exists_fail == "fail"

if_exists == "replace"

\* DataFrame.to_sql(name, conn, index=False, if_exists=...): the columns are
\* stored without the index; raised is TRUE when pandas raises ValueError.
to_sql(database, name, d, mode) ==
    LET put == [t \in DOMAIN database \cup {name} |->
                   IF t = name THEN d.cols ELSE database[t]]
    IN  IF name \notin DOMAIN database THEN [raised |-> FALSE, db |-> put]
        ELSE IF mode = "replace" THEN [raised |-> FALSE, db |-> put]
        ELSE IF mode = "fail" THEN [raised |-> TRUE, db |-> database]
        ELSE [raised |-> FALSE,
              db |-> [t \in DOMAIN database |->
                        IF t = name
                        THEN [i \in 1..Len(database[t]) |->
                                [database[t][i] EXCEPT !.vals = @ \o d.cols[i].vals]]
                        ELSE database[t]]]

NoneRet == [none |-> TRUE, df |-> NoDf, table_name |-> <<>>, db_path |-> <<>>]

\* Variant: the frame is written before it is checked.
SaveOutcomeWriteFirst(file, template, database, name, path) ==
    IF ~Parses(file)
    THEN [ret |-> NoneRet, msg |-> "unexpected error", db |-> database]
    ELSE LET d == Parsed(file)
             w == to_sql(database, name, d, "replace")
         IN  IF IsEmpty(d)
             THEN [ret |-> NoneRet, msg |-> "empty file", db |-> w.db]
             ELSE IF ~validate_data_structure(d, template)
             THEN [ret |-> NoneRet, msg |-> "structure mismatch", db |-> w.db]
             ELSE [ret |-> [none |-> FALSE, df |-> d, table_name |-> name,
                            db_path |-> path],
                   msg |-> "", db |-> w.db]

\* What the try block of save_uploaded_file_as_sqlite does with a file:
\* the outcome, the message shown and the database afterwards.
SaveOutcome(file, template, database, name, path) ==
    IF ~Parses(file)
    THEN [ret |-> NoneRet, msg |-> "unexpected error", db |-> database]
    ELSE LET d == Parsed(file) IN
         IF IsEmpty(d)
         THEN [ret |-> NoneRet, msg |-> "empty file", db |-> database]
         ELSE IF ~validate_data_structure(d, template)
         THEN [ret |-> NoneRet, msg |-> "structure mismatch", db |-> database]
         ELSE LET w == to_sql(database, name, d, if_exists) IN
              IF w.raised
              THEN [ret |-> NoneRet, msg |-> "unexpected error", db |-> database]
              ELSE [ret |-> [none |-> FALSE, df |-> d, table_name |-> name,
                             db_path |-> path],
                    msg |-> "", db |-> w.db]

-----------------------------------------------------------------------------
(* The script run, step by step *)

Say(s, m) == [msgs EXCEPT ![s] = @ \cup m]

\* Lines 266-288: the frame to work on, and the branch on the uploader.
Load(s) ==
    /\ pc[s] = "start"
    /\ LET file == uploaded_file[s] IN
       IF ~file.present
       THEN /\ df' = [df EXCEPT ![s] = initial_df]
            /\ pc' = [pc EXCEPT ![s] = "clean"]
            /\ msgs' = msgs
       ELSE /\ df' = [df EXCEPT ![s] = IF Parses(file) THEN Parsed(file) ELSE initial_df]
            /\ pc' = [pc EXCEPT ![s] = "save_read"]
            /\ msgs' = IF Parses(file) THEN msgs ELSE Say(s, {"load error"})
    /\ UNCHANGED <<fs, initial_df, username, uploaded_file, table_name, ret, runs,
                   widgets, filtered_data, summary, exported>>

\* Lines 104-131: connect, list the tables, compute the table name.  int()
\* raises on a suffix that is no number, outside the try block.
SaveRead(s) ==
    /\ pc[s] = "save_read"
    /\ LET u == username[s]
           path == db_path(u)
           files == Connect(fs, path)
           tables == user_tables(existing_tables(files, path), u)
       IN  /\ fs' = files
           /\ IF \E t \in tables : ~IsDigits(Suffix(t, u))
              THEN /\ pc' = [pc EXCEPT ![s] = "crashed"]
                   /\ msgs' = Say(s, {"exception"})
                   /\ table_name' = table_name
              ELSE /\ pc' = [pc EXCEPT ![s] = "save_write"]
                   /\ msgs' = msgs
                   /\ table_name' = [table_name EXCEPT ![s] =
                                        TableName(u, next_table_num(tables, u))]
    /\ UNCHANGED <<initial_df, username, uploaded_file, df, ret, runs, widgets,
                   filtered_data, summary, exported>>

\* Lines 133-161 and the caller's lines 291-303: parse, validate, write; the
\* success message is shown whatever the save returned.
SaveWrite(s) ==
    /\ pc[s] = "save_write"
    /\ LET path == db_path(username[s])
           out == SaveOutcome(uploaded_file[s], initial_df, fs[path], table_name[s], path)
       IN  /\ fs' = [fs EXCEPT ![path] = out.db]
           /\ ret' = [ret EXCEPT ![s] = out.ret]
           /\ msgs' = Say(s, (IF out.msg = "" THEN {} ELSE {out.msg}) \cup {"success"})
    /\ pc' = [pc EXCEPT ![s] = "coerce"]
    /\ UNCHANGED <<initial_df, username, uploaded_file, df, table_name, runs, widgets,
                   filtered_data, summary, exported>>

-----------------------------------------------------------------------------
(* Numeric coercion, lines 305-327 *)

IsNumericText(v) == v.t = "str" /\ IsNumeral(v.s)

\* pd.to_numeric(errors='ignore') on one column: an object column whose every
\* entry is a number, numeric text or missing becomes numeric; any other
\* column comes back as it was.
to_numeric_ignore(col) ==
    IF col.dtype # "object" \/ Len(col.vals) = 0 THEN col
    ELSE IF \A r \in 1..Len(col.vals) :
                col.vals[r] = NaN \/ col.vals[r].t = "num" \/ IsNumericText(col.vals[r])
    THEN [name |-> col.name,
          dtype |-> IF \E r \in 1..Len(col.vals) : col.vals[r] = NaN
                    THEN "float64" ELSE "int64",
          vals |-> [r \in 1..Len(col.vals) |->
                      IF IsNumericText(col.vals[r])
                      THEN Whole(NumeralValue(col.vals[r].s)) ELSE col.vals[r]]]
    ELSE col

\* pd.to_numeric(errors='coerce') on one column: what is no number is missing.
to_numeric_coerce(col) ==
    LET vals == [r \in 1..Len(col.vals) |->
                    IF IsNumericText(col.vals[r]) THEN Whole(NumeralValue(col.vals[r].s))
                    ELSE IF col.vals[r].t = "num" THEN col.vals[r] ELSE NaN]
    IN  [name |-> col.name,
         dtype |-> IF \E r \in 1..Len(vals) : vals[r] = NaN THEN "float64" ELSE "int64",
         vals |-> vals]

\* df.apply(pd.to_numeric, errors='ignore')
apply_to_numeric(d) == [d EXCEPT !.cols = [i \in 1..Len(d.cols) |-> to_numeric_ignore(d.cols[i])]]

columns_to_coerce ==
    <<<<"M", "O", "N", "T", "A", "N", "T">>,
      <<"F", "R", "E", "Q", "U", "E", "N", "C", "E", "_", "R", "E", "C", "H">>,
      <<"D", "A", "T", "A", "_", "V", "O", "L", "U", "M", "E">>,
      <<"O", "N", "_", "N", "E", "T">>,
      <<"O", "R", "A", "N", "G", "E">>,
      <<"T", "I", "G", "O">>,
      <<"F", "R", "E", "Q", "_", "T", "O", "P", "_", "P", "A", "C", "K">>,
      <<"R", "E", "V", "E", "N", "U", "E">>,
      <<"A", "R", "P", "U", "_", "S", "E", "G", "M", "E", "N", "T">>,
      <<"F", "R", "E", "Q", "U", "E", "N", "C", "E">>,
      <<"R", "E", "G", "U", "L", "A", "R", "I", "T", "Y">>>>

MustCoerce(col) == col.name \in Range(columns_to_coerce) /\ col.dtype = "object"

\* Lines 308-317: the frame after the coercion loop.
Coerced(d) ==
    LET a == apply_to_numeric(d)
    IN  [a EXCEPT !.cols = [i \in 1..Len(a.cols) |->
                              IF MustCoerce(a.cols[i]) THEN to_numeric_coerce(a.cols[i])
                              ELSE a.cols[i]]]

Coerce(s) ==
    /\ pc[s] = "coerce"
    /\ df' = [df EXCEPT ![s] = Coerced(df[s])]
    /\ msgs' = IF \E i \in 1..Len(df[s].cols) : MustCoerce(apply_to_numeric(df[s]).cols[i])
               THEN Say(s, {"coercion warning"}) ELSE msgs
    /\ pc' = [pc EXCEPT ![s] = "clean"]
    /\ UNCHANGED <<fs, initial_df, username, uploaded_file, table_name, ret, runs,
                   widgets, filtered_data, summary, exported>>

-----------------------------------------------------------------------------
(* Cleaning, lines 329-364 *)

islower(c) == c \in Range(LowerChars)
upper(c) == IF islower(c) THEN UpperChars[CHOOSE i \in 1..Len(LowerChars) : LowerChars[i] = c]
            ELSE c
lower(c) == IF c \in Range(UpperChars)
            THEN LowerChars[CHOOSE i \in 1..Len(UpperChars) : UpperChars[i] = c]
            ELSE c

\* str.capitalize(): the first character upper-cased, the others lower-cased
capitalize(name) ==
    [i \in 1..Len(name) |-> IF i = 1 THEN upper(name[i]) ELSE lower(name[i])]

\* Line 334
NormalizeName(col) == IF islower(col[1]) THEN capitalize(col) ELSE col

RemoveAt(seq, i) == SubSeq(seq, 1, i - 1) \o SubSeq(seq, i + 1, Len(seq))

\* Lines 330-331: df.set_index('user_id', inplace=True)
set_index(d) ==
    IF HasCol(d, user_id)
    THEN [index |-> [name |-> user_id, vals |-> d.cols[ColIndex(d, user_id)].vals],
          cols |-> RemoveAt(d.cols, ColIndex(d, user_id))]
    ELSE d

RenameColumns(d) ==
    [d EXCEPT !.cols = [i \in 1..Len(d.cols) |->
                          [d.cols[i] EXCEPT !.name = NormalizeName(d.cols[i].name)]]]

Unknown == Str("Unknown")

\* Lines 337-342
FillUnknown(col) ==
    IF col.name # CHURN /\ col.dtype \in {"object", "category"}
    THEN [col EXCEPT !.vals = [r \in 1..Len(col.vals) |->
                                  IF col.vals[r] = NaN THEN Unknown ELSE col.vals[r]]]
    ELSE col

\* Python's order of the texts that occur, and the order of values of one kind.
StrOrder == <<"0", "1", "10", "2", "20", "3", "30", "40", "DAKAR", "No", "THIES",
              "Unknown", "Yes", "id1", "id2", "id3", "id4", "id5", "x">>
StrRank(t) == CHOOSE i \in 1..Len(StrOrder) : StrOrder[i] = t
LessEq(a, b) ==
    IF a.t = "num" /\ b.t = "num" THEN a.n <= b.n ELSE StrRank(a.s) <= StrRank(b.s)

Observed(vals) == {vals[r] : r \in 1..Len(vals)} \ {NaN}
Count(vals, v) == Cardinality({r \in 1..Len(vals) : vals[r] = v})
Smallest(S) == CHOOSE v \in S : \A w \in S : LessEq(v, w)
Largest(S) == CHOOSE v \in S : \A w \in S : LessEq(w, v)

\* Variant: the smallest observed value, however frequent.
most_frequent_smallest(vals) == Smallest(Observed(vals))

\* SimpleImputer(strategy='most_frequent'): the most frequent observed value,
\* the smallest one when several are as frequent.
most_frequent(vals) ==
    LET best == Max({Count(vals, v) : v \in Observed(vals)})
    IN  Smallest({v \in Observed(vals) : Count(vals, v) = best})

\* Line 345
RevertUnknown(vals) == [r \in 1..Len(vals) |-> IF vals[r] = Unknown THEN NaN ELSE vals[r]]

FillWith(vals, v) == [r \in 1..Len(vals) |-> IF vals[r] = NaN THEN v ELSE vals[r]]

\* Variant: Unknown is turned into a missing value after the imputation.
ImputeChurnRevertLast(col) ==
    [col EXCEPT !.vals = RevertUnknown(FillWith(col.vals, most_frequent(col.vals)))]

\* Lines 345-349 on the CHURN column
ImputeChurn(col) ==
    LET reverted == RevertUnknown(col.vals)
    IN  [col EXCEPT !.vals = FillWith(reverted, most_frequent(reverted))]

\* The k-th smallest of the observed numbers of a column, in halves.
KthSmallest(vals, k) ==
    LET obs == {r \in 1..Len(vals) : vals[r] # NaN}
    IN  vals[CHOOSE r \in obs :
                /\ Cardinality({q \in obs : vals[q].n < vals[r].n}) < k
                /\ Cardinality({q \in obs : vals[q].n <= vals[r].n}) >= k].n

\* Variant: the lower of the two middle numbers of an even count.
median_lower(vals) ==
    LET m == Cardinality({r \in 1..Len(vals) : vals[r] # NaN})
    IN  Num(KthSmallest(vals, (m + 1) \div 2))

\* SimpleImputer(strategy='median'): the median of the observed numbers.
median(vals) ==
    LET m == Cardinality({r \in 1..Len(vals) : vals[r] # NaN})
    IN  IF m % 2 = 1 THEN Num(KthSmallest(vals, (m + 1) \div 2))
        ELSE Num((KthSmallest(vals, m \div 2) + KthSmallest(vals, (m \div 2) + 1)) \div 2)

IsNumerical(col) == col.dtype \in {"float64", "int64"}

\* Lines 359-360 on one numerical column: the result is float64
ImputeMedian(col) ==
    [name |-> col.name, dtype |-> "float64",
     vals |-> IF \E r \in 1..Len(col.vals) : col.vals[r] = NaN
              THEN FillWith(col.vals, median(col.vals)) ELSE col.vals]

\* Line 364: astype('int64') cuts the fraction off
astype_int64(col) ==
    [name |-> col.name, dtype |-> "int64",
     vals |-> [r \in 1..Len(col.vals) |-> Num((col.vals[r].n \div 2) * 2)]]

MapCols(d, cols) == [d EXCEPT !.cols = cols]

\* Lines 329-342
CleanNames(d) ==
    LET r == RenameColumns(set_index(d))
    IN  MapCols(r, [i \in 1..Len(r.cols) |-> FillUnknown(r.cols[i])])

\* Lines 344-352
CleanChurn(d) ==
    apply_to_numeric(
        MapCols(d, [i \in 1..Len(d.cols) |->
                      IF d.cols[i].name = CHURN THEN ImputeChurn(d.cols[i]) ELSE d.cols[i]]))

\* Lines 354-364
CleanNumbers(d) ==
    MapCols(d, [i \in 1..Len(d.cols) |->
                  IF d.cols[i].dtype = "int64" THEN astype_int64(ImputeMedian(d.cols[i]))
                  ELSE IF d.cols[i].dtype = "float64" THEN ImputeMedian(d.cols[i])
                  ELSE d.cols[i]])

\* What stops the cleaning with an exception: two columns of one name (line
\* 340), no CHURN column (line 345), an imputer given no row or a column with
\* no observed value (lines 349, 360), no numerical column (line 360).
ChurnRaises(d) ==
    \/ \E i, j \in 1..Len(d.cols) : i # j /\ d.cols[i].name = d.cols[j].name
    \/ ~HasCol(d, CHURN)
    \/ NRows(d) = 0
    \/ Observed(RevertUnknown(d.cols[ColIndex(d, CHURN)].vals)) = {}

NumbersRaise(d) ==
    \/ \A i \in 1..Len(d.cols) : ~IsNumerical(d.cols[i])
    \/ \E i \in 1..Len(d.cols) : IsNumerical(d.cols[i]) /\ Observed(d.cols[i].vals) = {}

\* The cleaning steps on a frame: the cleaned frame, or raised.
Cleaned(d) ==
    LET a == CleanNames(d) IN
    IF ChurnRaises(a) THEN [raised |-> TRUE, df |-> d]
    ELSE LET b == CleanChurn(a) IN
         IF NumbersRaise(b) THEN [raised |-> TRUE, df |-> d]
         ELSE [raised |-> FALSE, df |-> CleanNumbers(b)]

Clean(s) ==
    /\ pc[s] = "clean"
    /\ LET c == Cleaned(df[s]) IN
       IF c.raised
       THEN /\ pc' = [pc EXCEPT ![s] = "crashed"]
            /\ msgs' = Say(s, {"exception"})
            /\ df' = df
       ELSE /\ pc' = [pc EXCEPT ![s] = "summary"]
            /\ msgs' = msgs
            /\ df' = [df EXCEPT ![s] = c.df]
    /\ UNCHANGED <<fs, initial_df, username, uploaded_file, table_name, ret, runs,
                   widgets, filtered_data, summary, exported>>

-----------------------------------------------------------------------------
(* Summaries, lines 385-395 and 480-487 *)

IsObject(col) == col.dtype = "object"

Undefined == [t |-> "undefined", s |-> "", n |-> 0]

\* DataFrame.describe() on the numerical columns: count, min and max (the
\* moments and quartiles are not modelled); undefined on no observation.
describe_numeric(d) ==
    LET nums == SelectSeq(d.cols, IsNumerical)
    IN  [i \in 1..Len(nums) |->
            [feature |-> nums[i].name,
             count |-> Cardinality({r \in 1..Len(nums[i].vals) : nums[i].vals[r] # NaN}),
             min |-> IF Observed(nums[i].vals) = {} THEN Undefined
                     ELSE Smallest(Observed(nums[i].vals)),
             max |-> IF Observed(nums[i].vals) = {} THEN Undefined
                     ELSE Largest(Observed(nums[i].vals))]]

\* select_dtypes(include=['object']).describe() raises on a frame without
\* object columns; .mode().iloc[0] raises on a frame without rows.
CategoricalRaises(d) ==
    \/ \A i \in 1..Len(d.cols) : ~IsObject(d.cols[i])
    \/ \A i \in 1..Len(d.cols) : IsObject(d.cols[i]) => Observed(d.cols[i].vals) = {}

\* Lines 392-395: count, unique, top (first row of mode()), freq
describe_categorical(d) ==
    LET objs == SelectSeq(d.cols, IsObject)
    IN  [i \in 1..Len(objs) |->
            [feature |-> objs[i].name,
             count |-> Cardinality({r \in 1..Len(objs[i].vals) : objs[i].vals[r] # NaN}),
             unique |-> Cardinality(Observed(objs[i].vals)),
             top |-> IF Observed(objs[i].vals) = {} THEN Undefined
                     ELSE most_frequent(objs[i].vals),
             freq |-> IF Observed(objs[i].vals) = {} THEN 0
                      ELSE Count(objs[i].vals, most_frequent(objs[i].vals))]]

NoSummary == [done |-> FALSE, numeric |-> <<>>, categorical |-> <<>>]

Summarize(d) ==
    IF CategoricalRaises(d) THEN [raised |-> TRUE, summary |-> NoSummary]
    ELSE [raised |-> FALSE,
          summary |-> [done |-> TRUE, numeric |-> describe_numeric(d),
                       categorical |-> describe_categorical(d)]]

\* Lines 369-401: the summaries of the whole cleaned frame.
Summary(s) ==
    /\ pc[s] = "summary"
    /\ LET r == Summarize(df[s]) IN
       IF r.raised
       THEN /\ pc' = [pc EXCEPT ![s] = "crashed"]
            /\ msgs' = Say(s, {"exception"})
            /\ summary' = summary
       ELSE /\ pc' = [pc EXCEPT ![s] = "filter"]
            /\ msgs' = msgs
            /\ summary' = [summary EXCEPT ![s].full = r.summary]
    /\ UNCHANGED <<fs, initial_df, username, uploaded_file, df, table_name, ret, runs,
                   widgets, filtered_data, exported>>

-----------------------------------------------------------------------------
(* Filtering, lines 412-475 *)

All == Str("")

IsCategorical(col) == col.dtype \in {"object", "category"}

Rows(d) == [r \in 1..NRows(d) |-> r]

\* df[rows]: the frame restricted to the rows listed
SelectRows(d, rows) ==
    [index |-> [name |-> d.index.name, vals |-> [k \in 1..Len(rows) |-> d.index.vals[rows[k]]]],
     cols |-> [i \in 1..Len(d.cols) |->
                 [d.cols[i] EXCEPT !.vals = [k \in 1..Len(rows) |-> d.cols[i].vals[rows[k]]]]]]

\* Lines 450-465: the rows the two select boxes leave
SelectBoxRows(d, w) ==
    LET col == d.cols[ColIndex(d, w.selected_column)]
        ValueIs(r) == col.vals[r] = w.selected_value
        IdIs(r) == d.index.vals[r] = w.selected_customer_id
        Both(r) == ValueIs(r) /\ IdIs(r)
    IN  IF w.selected_value = All /\ w.selected_customer_id = All THEN Rows(d)
        ELSE IF w.selected_value # All /\ w.selected_customer_id = All
             THEN SelectSeq(Rows(d), ValueIs)
        ELSE IF w.selected_value = All /\ w.selected_customer_id # All
             THEN SelectSeq(Rows(d), IdIs)
        ELSE SelectSeq(Rows(d), Both)

\* Lines 469-472: one slider after the other, each on what the last one left
RECURSIVE ApplySliders(_, _, _)
ApplySliders(d, rows, sliders) ==
    IF sliders = <<>> THEN rows
    ELSE LET col == d.cols[ColIndex(d, Head(sliders).column)]
             InRange(r) == /\ col.vals[r].n >= Head(sliders).min_val.n
                           /\ col.vals[r].n <= Head(sliders).max_val.n
         IN  ApplySliders(d, SelectSeq(rows, InRange), Tail(sliders))

\* Variant: each slider selects from df, so that the last slider alone decides.
FilterRowsLastSlider(d, w) ==
    IF w.slider_values = <<>> THEN SelectBoxRows(d, w)
    ELSE ApplySliders(d, Rows(d), <<w.slider_values[Len(w.slider_values)]>>)

FilterRows(d, w) == ApplySliders(d, SelectBoxRows(d, w), w.slider_values)

\* Lines 418-430: a slider per numerical column, any range within the
\* column's minimum and maximum (here: between observed values).
RECURSIVE SliderChoices(_)
SliderChoices(cols) ==
    IF cols = <<>> THEN {<<>>}
    ELSE LET obs == Observed(Head(cols).vals)
         IN  {<<[column |-> Head(cols).name, min_val |-> p[1], max_val |-> p[2]]>> \o rest :
                 p \in {q \in obs \X obs : q[1].n <= q[2].n},
                 rest \in SliderChoices(Tail(cols))}

NoWidgets ==
    [selected_column |-> <<>>, selected_value |-> All, selected_customer_id |-> All,
     slider_values |-> <<>>]

NoView == [defined |-> FALSE, df |-> NoDf]

\* Lines 403-475: the widgets take their values and the view is computed.  With
\* no categorical column nothing is filtered and filtered_data stays unbound.
Filter(s) ==
    /\ pc[s] = "filter"
    /\ LET d == df[s]
           cats == SelectSeq(d.cols, IsCategorical)
           nums == SelectSeq(d.cols, IsNumerical)
       IN  IF cats = <<>>
           THEN /\ \E sl \in SliderChoices(nums) :
                      widgets' = [widgets EXCEPT ![s] = [NoWidgets EXCEPT !.slider_values = sl]]
                /\ filtered_data' = filtered_data
           ELSE \E c \in 1..Len(cats), sl \in SliderChoices(nums) :
                \E v \in {All} \cup Range(cats[c].vals),
                   id \in {All} \cup Range(d.index.vals) :
                   LET w == [selected_column |-> cats[c].name, selected_value |-> v,
                             selected_customer_id |-> id, slider_values |-> sl]
                   IN  /\ widgets' = [widgets EXCEPT ![s] = w]
                       /\ filtered_data' = [filtered_data EXCEPT ![s] =
                              [defined |-> TRUE, df |-> SelectRows(d, FilterRows(d, w))]]
    /\ pc' = [pc EXCEPT ![s] = "filtered_summary"]
    /\ UNCHANGED <<fs, initial_df, username, uploaded_file, df, table_name, ret, msgs,
                   runs, summary, exported>>

\* Lines 477-493: the summaries of the view, unless a user id is selected.
FilteredSummary(s) ==
    /\ pc[s] = "filtered_summary"
    /\ IF filtered_data[s].defined /\ widgets[s].selected_customer_id = All
       THEN LET r == Summarize(filtered_data[s].df) IN
            IF r.raised
            THEN /\ pc' = [pc EXCEPT ![s] = "crashed"]
                 /\ msgs' = Say(s, {"exception"})
                 /\ summary' = summary
            ELSE /\ pc' = [pc EXCEPT ![s] = "export"]
                 /\ msgs' = msgs
                 /\ summary' = [summary EXCEPT ![s].filtered = r.summary]
       ELSE /\ pc' = [pc EXCEPT ![s] = "export"]
            /\ UNCHANGED <<msgs, summary>>
    /\ UNCHANGED <<fs, initial_df, username, uploaded_file, df, table_name, ret, runs,
                   widgets, filtered_data, exported>>

-----------------------------------------------------------------------------
(* Downloads, lines 564-577 *)

Formats == {"excel", "stata", "html", "json"}

NoExport == [original |-> {}, filtered |-> {}]

\* The buttons for the cleaned frame, then those for the view; the name
\* filtered_data is unbound when nothing was filtered.
Export(s) ==
    /\ pc[s] = "export"
    /\ IF filtered_data[s].defined
       THEN /\ exported' = [exported EXCEPT ![s] = [original |-> Formats, filtered |-> Formats]]
            /\ pc' = [pc EXCEPT ![s] = "done"]
            /\ msgs' = msgs
       ELSE /\ exported' = [exported EXCEPT ![s] = [original |-> Formats, filtered |-> {}]]
            /\ pc' = [pc EXCEPT ![s] = "crashed"]
            /\ msgs' = Say(s, {"exception"})
    /\ UNCHANGED <<fs, initial_df, username, uploaded_file, df, table_name, ret, runs,
                   widgets, filtered_data, summary>>

\* A widget interaction (lines 425-448, the download buttons) ends the run at
\* the next st call and starts the script again, the same file still selected.
\* Between lines 104 and 161 the save makes no st call on its way to the write.
Rerun(s) ==
    /\ pc[s] \notin {"off", "start", "save_read", "save_write"}
    /\ runs[s] < MaxRuns
    /\ runs' = [runs EXCEPT ![s] = @ + 1]
    /\ pc' = [pc EXCEPT ![s] = "start"]
    /\ df' = [df EXCEPT ![s] = NoDf]
    /\ table_name' = [table_name EXCEPT ![s] = <<>>]
    /\ ret' = [ret EXCEPT ![s] = NoneRet]
    /\ msgs' = [msgs EXCEPT ![s] = {}]
    /\ widgets' = [widgets EXCEPT ![s] = NoWidgets]
    /\ filtered_data' = [filtered_data EXCEPT ![s] = NoView]
    /\ summary' = [summary EXCEPT ![s] = [full |-> NoSummary, filtered |-> NoSummary]]
    /\ exported' = [exported EXCEPT ![s] = NoExport]
    /\ UNCHANGED <<fs, initial_df, username, uploaded_file>>

-----------------------------------------------------------------------------
(* The table store under concurrent sessions *)

UserU == <<"u">>
UserV == <<"v">>

StoredDefault == Parsed(File("csv", DefaultContent(ViewRows), ViewRows)).cols

\* Numbers of tables user u holds before the sessions start.
InitialCounts == {0, 5, 9}

\* The database file of a user who saved k uploads, one after the other.
DbAfter(u, k) == [t \in {TableName(u, i) : i \in 1..k} |-> StoredDefault]

Swap(content, i, j) ==
    [k \in 1..Len(content) |->
        IF k = i THEN content[j] ELSE IF k = j THEN content[i] ELSE content[k]]

FlippedChurn(n) == [i \in 1..n |-> IF i % 2 = 1 THEN "No" ELSE "Yes"]

Headers(content) == [i \in 1..Len(content) |-> Column(content[i].name, <<>>)]

DefaultFile == File("csv", DefaultContent(ViewRows), ViewRows)
FlippedFile ==
    File("xlsx", WithCells(DefaultContent(ViewRows), CHURN, FlippedChurn(ViewRows)), ViewRows)

\* What a session of the store runs uploads: two files in the template's
\* structure, one with two columns swapped, one with headers alone, one that
\* does not parse.  Session 1 uploads any of them, session 2 the second,
\* session 3 (the other user) the first.
StoreFiles ==
    { DefaultFile,
      FlippedFile,
      File("csv", Swap(DefaultContent(ViewRows), 2, 3), ViewRows),
      File("csv", Headers(DefaultContent(ViewRows)), 0),
      Garbage("csv") }

InitSessions ==
    /\ df = [s \in Sessions |-> NoDf]
    /\ table_name = [s \in Sessions |-> <<>>]
    /\ ret = [s \in Sessions |-> NoneRet]
    /\ msgs = [s \in Sessions |-> {}]
    /\ runs = [s \in Sessions |-> 0]
    /\ widgets = [s \in Sessions |-> NoWidgets]
    /\ filtered_data = [s \in Sessions |-> NoView]
    /\ summary = [s \in Sessions |-> [full |-> NoSummary, filtered |-> NoSummary]]
    /\ exported = [s \in Sessions |-> NoExport]

InitStore ==
    /\ InitSessions
    /\ initial_df = Template
    /\ pc = [s \in Sessions |-> "start"]
    /\ username = [s \in Sessions |-> IF s = 3 THEN UserV ELSE UserU]
    /\ \E k \in InitialCounts :
          fs = [p \in (IF k = 0 THEN {} ELSE {db_path(UserU)}) |-> DbAfter(UserU, k)]
    /\ uploaded_file \in {f \in [Sessions -> StoreFiles] :
                             /\ f[2] = FlippedFile
                             /\ f[3] = DefaultFile}

NextStore == \E s \in Sessions : Load(s) \/ SaveRead(s) \/ SaveWrite(s) \/ Rerun(s)

SpecStore == InitStore /\ [][NextStore]_vars

-----------------------------------------------------------------------------
(* Claims about the table store, under SpecStore *)

Users == {UserU, UserV}

\* The database file of a user, empty when it does not exist yet.
FileOf(u) == IF db_path(u) \in DOMAIN fs THEN fs[db_path(u)] ELSE EmptyDb

SaveReadStep(s) == pc[s] = "save_read" /\ pc'[s] = "save_write"
SaveWriteStep(s) == pc[s] = "save_write" /\ pc'[s] = "coerce"

\* No session can have saved more often than this.
MostTables == Max(InitialCounts) + Cardinality(Sessions) * (MaxRuns + 1)

\* The name the claim gives: {username}_table{N}, N one more than the largest
\* N' with {username}_table{N'} stored, 1 when there is none, in plain decimal.
ExpectedTableName(u, database) ==
    LET held == {n \in 1..MostTables : (u \o TableInfix \o StrOf(n)) \in DOMAIN database}
        N == IF held = {} THEN 1 ELSE Max(held) + 1
    IN  u \o TableInfix \o StrOf(N)

\* C1: the save names the new table {username}_table{N}, N = 1 when the user
\* has no table and the largest stored suffix plus one otherwise, written in
\* N's own decimal digits.
C1_NextTableName ==
    [][\A s \in Sessions :
          SaveReadStep(s) =>
              table_name'[s] = ExpectedTableName(username[s], FileOf(username[s]))]_vars

\* C1 witness: with u_table1..u_table9 stored, a save has computed u_table10.
C1_Witness ==
    \E s \in Sessions :
        /\ pc[s] = "save_write"
        /\ DOMAIN FileOf(UserU) = {UserU \o TableInfix \o <<DigitChars[i + 1]>> : i \in 1..9}
        /\ table_name[s] = UserU \o TableInfix \o <<"1", "0">>

\* The upload is one the save rejects: unreadable, empty, or not in the
\* template's structure.
Rejected(file, template) ==
    \/ ~Parses(file)
    \/ IsEmpty(Parsed(file))
    \/ ~validate_data_structure(Parsed(file), template)

SaveErrors == {"unexpected error", "empty file", "structure mismatch"}

\* C2: a save that fails reports an error, returns no record and leaves every
\* stored table as it was.
C2_FailedSaveLeavesStore ==
    [][\A s \in Sessions :
          (SaveWriteStep(s) /\ Rejected(uploaded_file[s], initial_df)) =>
              /\ fs' = fs
              /\ ret'[s] = NoneRet
              /\ msgs'[s] \cap SaveErrors # {}]_vars

\* C2 witness: a save of a file in the wrong structure has returned nothing,
\* the user's five tables still stored.
C2_Witness ==
    \E s \in Sessions :
        /\ pc[s] = "coerce"
        /\ "structure mismatch" \in msgs[s]
        /\ ret[s] = NoneRet
        /\ FileOf(username[s]) = DbAfter(UserU, Max(InitialCounts \ {Max(InitialCounts)}))

\* C5: an accepted save writes its frame under the name it computed, replacing
\* a table of that name if another session wrote one in between; so two
\* sessions of one user that read the same tables both write the same table.
C5_WriteReplaces ==
    [][\A s \in Sessions :
          (SaveWriteStep(s) /\ ~Rejected(uploaded_file[s], initial_df)) =>
              LET before == FileOf(username[s])
                  after == fs'[db_path(username[s])]
              IN  /\ ret'[s] = [none |-> FALSE, df |-> Parsed(uploaded_file[s]),
                                table_name |-> table_name[s],
                                db_path |-> db_path(username[s])]
                  /\ DOMAIN after = DOMAIN before \cup {table_name[s]}
                  /\ after[table_name[s]] = Parsed(uploaded_file[s]).cols
                  /\ \A t \in DOMAIN before \ {table_name[s]} : after[t] = before[t]]_vars

\* C5 witness: two sessions of user u, each in its first run, have both had
\* their upload accepted under the same table name, and one table is stored.
C5_Witness ==
    \E s1, s2 \in Sessions :
        /\ s1 # s2 /\ username[s1] = username[s2]
        /\ runs[s1] = 0 /\ runs[s2] = 0
        /\ pc[s1] = "coerce" /\ pc[s2] = "coerce"
        /\ ~ret[s1].none /\ ~ret[s2].none
        /\ ret[s1].table_name = ret[s2].table_name
        /\ uploaded_file[s1] # uploaded_file[s2]
        /\ Cardinality(DOMAIN FileOf(username[s1])) = 1

\* C6: a step of a session changes no database file of another user, and the
\* name it computes is decided by its own user's tables.
C6_UsersDisjoint ==
    [][\A s \in Sessions :
          pc'[s] # pc[s] =>
              /\ \A b \in Users \ {username[s]} : FileOf(b)' = FileOf(b)
              /\ SaveReadStep(s) =>
                    table_name'[s] = ExpectedTableName(username[s], FileOf(username[s]))]_vars

\* C6 witness: users u and v have both saved, and v holds v_table1 alone
\* beside u's ten tables.
C6_Witness ==
    /\ \E s \in Sessions : username[s] = UserU /\ pc[s] = "coerce" /\ ~ret[s].none
    /\ \E s \in Sessions : username[s] = UserV /\ pc[s] = "coerce" /\ ~ret[s].none
    /\ DOMAIN FileOf(UserV) = {UserV \o TableInfix \o <<"1">>}
    /\ Cardinality(DOMAIN FileOf(UserU)) = 10

-----------------------------------------------------------------------------
(* One session running the page on the enumerated uploads *)

\* All columns of n cells over a set of cells.
CellColumns(cells, n) == [1..n -> cells]

Renamed(content, old, new) ==
    [i \in 1..Len(content) |->
        IF content[i].name = old THEN Column(new, content[i].cells) ELSE content[i]]

Without(content, name) ==
    SelectSeq(content, LAMBDA c : c.name # name)

montant == <<"m", "o", "n", "t", "a", "n", "t">>
mONTANT == <<"m", "O", "N", "T", "A", "N", "T">>

\* The template's shape changed: two columns swapped, MONTANT renamed in lower
\* case, user_id or CHURN left out; a file of headers alone, a file that does
\* not parse, no file.
ShapeFiles(n) ==
    LET base == DefaultContent(n)
    IN  {File("csv", Swap(base, 2, 3), n),
         File("csv", Renamed(base, MONTANT, montant), n),
         File("csv", Renamed(base, MONTANT, mONTANT), n),
         File("csv", Without(base, user_id), n),
         File("csv", Without(base, CHURN), n),
         File("csv", Headers(base), 0),
         Garbage("csv"),
         NoFile}

MontantFiles(n) ==
    {File("csv", WithCells(DefaultContent(n), MONTANT, c), n) :
        c \in CellColumns({"", "10", "30", "x"}, n)}

RegionFiles(n) ==
    {File("xlsx", WithCells(DefaultContent(n), REGION, c), n) :
        c \in CellColumns({"", "DAKAR", "THIES"}, n)}

ChurnFiles(n) ==
    {File("csv", WithCells(DefaultContent(n), CHURN, c), n) :
        c \in CellColumns({"", "Unknown", "Yes", "No", "1"}, n)}

NumberChurnFiles(n) ==
    {File("csv", WithCells(DefaultContent(n), CHURN, c), n) :
        c \in CellColumns({"", "0", "1"}, n)}

\* The uploads of the page runs: the template's shape with every MONTANT
\* column over {missing, 10, 30, x} and every REGION column over {missing,
\* DAKAR, THIES}, and the changed shapes.
PageFiles == MontantFiles(ViewRows) \cup RegionFiles(ViewRows) \cup ShapeFiles(ViewRows)

\* The uploads of the cleaning runs: those with every CHURN column over
\* {missing, Unknown, Yes, No, 1} and over {missing, 0, 1} as well, in NumRows
\* rows.
CleanFiles ==
    ChurnFiles(NumRows) \cup NumberChurnFiles(NumRows) \cup MontantFiles(NumRows)
        \cup RegionFiles(NumRows) \cup ShapeFiles(NumRows)

OneSession(files) ==
    /\ InitSessions
    /\ pc = [s \in Sessions |-> IF s = 1 THEN "start" ELSE "off"]
    /\ username = [s \in Sessions |-> IF s = 3 THEN UserV ELSE UserU]
    /\ fs = [p \in {} |-> EmptyDb]
    /\ \E f \in files :
          uploaded_file = [s \in Sessions |-> IF s = 1 THEN f ELSE NoFile]

Init == OneSession(PageFiles) /\ initial_df = Template

Next ==
    \E s \in Sessions :
        \/ Load(s) \/ SaveRead(s) \/ SaveWrite(s) \/ Coerce(s) \/ Clean(s)
        \/ Summary(s) \/ Filter(s) \/ FilteredSummary(s) \/ Export(s) \/ Rerun(s)

Spec == Init /\ [][Next]_vars

\* The cleaning alone: one run of the page as far as the summaries.
InitClean == OneSession(CleanFiles) /\ initial_df \in {Template, TemplateNumbers}

NextClean ==
    \E s \in Sessions :
        \/ Load(s) \/ SaveRead(s) \/ SaveWrite(s) \/ Coerce(s) \/ Clean(s) \/ Summary(s)

SpecClean == InitClean /\ [][NextClean]_vars

\* The validation alone: a template and an upload of one row each, their one
\* or two columns named REGION or MONTANT and read as float64 (the cell is
\* missing), object, int64 or bool.
SchemaColumns == {Column(name, <<c>>) : name \in {REGION, MONTANT}, c \in {"", "x", "1", "True"}}
SchemaContents == {<<a>> : a \in SchemaColumns} \cup {<<a, b>> : a, b \in SchemaColumns}
SchemaFiles == {File("csv", c, Len(c[1].cells)) : c \in SchemaContents}

InitValidate ==
    /\ OneSession(SchemaFiles)
    /\ initial_df \in {Parsed(f) : f \in SchemaFiles}

SpecValidate == InitValidate /\ [][NextStore]_vars

-----------------------------------------------------------------------------
(* The page after a rejected save *)

Cleaner == {"summary", "filter", "filtered_summary", "export", "done"}

ValidationError(s) == msgs[s] \cap {"structure mismatch", "empty file"} # {}

\* C3: when the save of an upload ends in a ValidationError (schema mismatch or
\* empty table), no later stage of the same cycle runs on the rejected table:
\* the run never gets past the cleaning, a summary, a view or a download of it.
C3_StopsAfterValidationError ==
    \A s \in Sessions :
        ValidationError(s) =>
            /\ pc[s] \notin Cleaner
            /\ ~summary[s].full.done
            /\ ~filtered_data[s].defined
            /\ exported[s] = NoExport

-----------------------------------------------------------------------------
(* The schema validation *)

TypeClass(dtype) ==
    IF dtype \in {"int64", "float64"} THEN "Numerical"
    ELSE IF dtype \in {"object", "category"} THEN "Categorical"
    ELSE dtype

SameStructure(candidate, template) ==
    /\ Len(candidate.cols) = Len(template.cols)
    /\ \A i \in 1..Len(candidate.cols) :
          /\ i <= Len(template.cols)
          /\ candidate.cols[i].name = template.cols[i].name
          /\ TypeClass(candidate.cols[i].dtype) = TypeClass(template.cols[i].dtype)

Validated(s) == pc[s] = "coerce" /\ Parses(uploaded_file[s]) /\ ~IsEmpty(Parsed(uploaded_file[s]))

\* C4: validate_data_structure(candidate, template) is true if and only if the
\* candidate has the template's column names in the template's order and,
\* column by column, the template's type class (int64 and float64 Numerical,
\* object and category Categorical, any other type itself): the save of a
\* parsed, non-empty upload is turned down for its structure exactly when that
\* is not so, and returns the frame exactly when it is.
C4_ValidateIffSameStructure ==
    \A s \in Sessions :
        Validated(s) =>
            LET same == SameStructure(Parsed(uploaded_file[s]), initial_df)
            IN  /\ validate_data_structure(Parsed(uploaded_file[s]), initial_df) = same
                /\ ("structure mismatch" \in msgs[s]) = ~same
                /\ ret[s].none = ~same

\* An upload of two columns is accepted whose types differ from the template's
\* within the Numerical class.
C4_Witness ==
    /\ Validated(1)
    /\ ~ret[1].none
    /\ Len(initial_df.cols) = 2
    /\ \E i \in 1..2 : initial_df.cols[i].dtype = "float64" /\ ret[1].df.cols[i].dtype = "int64"

-----------------------------------------------------------------------------
(* The cleaning *)

\* C7: cleaning is idempotent: the cleaning steps run on a cleaned frame do not
\* raise and give the cleaned frame back, clean(clean(T)) = clean(T).
C7_CleanIdempotent ==
    \A s \in Sessions :
        pc[s] \in Cleaner => Cleaned(df[s]) = [raised |-> FALSE, df |-> df[s]]

UploadCells(s, name) ==
    LET content == uploaded_file[s].content
    IN  content[CHOOSE i \in 1..Len(content) : content[i].name = name].cells

HasUploadColumn(s, name) ==
    /\ uploaded_file[s].present
    /\ Parses(uploaded_file[s])
    /\ \E i \in 1..Len(uploaded_file[s].content) : uploaded_file[s].content[i].name = name

\* A frame was cleaned whose CHURN column held a missing value, Unknown and a
\* label.
C7_Witness ==
    /\ pc[1] \in Cleaner
    /\ HasUploadColumn(1, CHURN)
    /\ {"", "Unknown", "Yes"} \subseteq Range(UploadCells(1, CHURN))

ChurnOf(d) == d.cols[ColIndex(d, CHURN)].vals

Missing(v) == v \in {NaN, Unknown}

Remaining(vals) == {vals[r] : r \in 1..Len(vals)} \ {NaN, Unknown}

IsMode(vals, m) ==
    /\ m \in Remaining(vals)
    /\ \A v \in Remaining(vals) : Count(vals, m) >= Count(vals, v)

CleanStep(s) == pc[s] = "clean" /\ pc'[s] = "summary"

NoMissingChurn(vals) == \A r \in 1..Len(vals) : ~Missing(vals[r])

\* The statement of C10 as the spec words it: after cleaning, CHURN holds no
\* missing value and no Unknown, every entry that was missing or Unknown holds
\* a most frequent value of the remaining entries (one value for all of them),
\* and every other entry is unchanged.
C10_OthersUnchanged ==
    [][\A s \in Sessions :
          CleanStep(s) =>
              LET old == ChurnOf(df[s])
                  new == ChurnOf(df'[s])
              IN  /\ NoMissingChurn(new)
                  /\ \E m \in Remaining(old) :
                        /\ IsMode(old, m)
                        /\ \A r \in 1..Len(old) :
                              new[r] = IF Missing(old[r]) THEN m ELSE old[r]]_vars

SpelledNumber(v) == IF v.t = "str" /\ IsNumeral(v.s) THEN Whole(NumeralValue(v.s)) ELSE v

AllNumbers(vals) ==
    \A v \in Remaining(vals) : v.t = "num" \/ (v.t = "str" /\ IsNumeral(v.s))

\* C10: after cleaning, CHURN holds no missing value and no Unknown; every
\* entry that was missing or Unknown holds a most frequent value of the
\* remaining entries (one value for all of them) and every other entry its own
\* value: as the number it spells when the remaining entries are all numbers
\* or numerals (the column is then read as numbers), unchanged otherwise.
C10_ChurnImputed ==
    [][\A s \in Sessions :
          CleanStep(s) =>
              LET old == ChurnOf(df[s])
                  new == ChurnOf(df'[s])
              IN  /\ NoMissingChurn(new)
                  /\ \E m \in Remaining(old) :
                        /\ IsMode(old, m)
                        /\ \A r \in 1..Len(old) :
                              LET kept == IF Missing(old[r]) THEN m ELSE old[r]
                              IN  new[r] = IF AllNumbers(old) THEN SpelledNumber(kept)
                                           ELSE kept]_vars

\* A CHURN column of Yes, Yes, No and a missing entry was cleaned to Yes, Yes,
\* No, Yes.
C10_Witness ==
    /\ pc[1] = "summary"
    /\ HasUploadColumn(1, CHURN)
    /\ \E r \in 1..Len(UploadCells(1, CHURN)) :
          /\ UploadCells(1, CHURN)[r] = ""
          /\ Cardinality({q \in 1..Len(UploadCells(1, CHURN)) :
                             UploadCells(1, CHURN)[q] = "Yes"}) >= 2
          /\ "No" \in Range(UploadCells(1, CHURN))
          /\ ChurnOf(df[1])[r] = Str("Yes")

-----------------------------------------------------------------------------
(* The filters *)

Satisfies(d, w, r) ==
    /\ w.selected_value # All =>
          d.cols[ColIndex(d, w.selected_column)].vals[r] = w.selected_value
    /\ w.selected_customer_id # All => d.index.vals[r] = w.selected_customer_id
    /\ \A i \in 1..Len(d.cols) :
          IsNumerical(d.cols[i]) =>
              \E k \in 1..Len(w.slider_values) :
                  /\ w.slider_values[k].column = d.cols[i].name
                  /\ w.slider_values[k].min_val.n <= d.cols[i].vals[r].n
                  /\ d.cols[i].vals[r].n <= w.slider_values[k].max_val.n

SatisfyingRows(d, w) ==
    LET Keep(r) == Satisfies(d, w, r) IN SelectSeq(Rows(d), Keep)

Reverse(seq) == [i \in 1..Len(seq) |-> seq[Len(seq) + 1 - i]]

\* The clauses in the opposite order: the sliders from the last to the first,
\* then the identifier, then the categorical value.
ReverseOrderRows(d, w) ==
    LET IdIs(r) == w.selected_customer_id = All \/ d.index.vals[r] = w.selected_customer_id
        ValueIs(r) ==
            \/ w.selected_value = All
            \/ d.cols[ColIndex(d, w.selected_column)].vals[r] = w.selected_value
    IN  SelectSeq(SelectSeq(ApplySliders(d, Rows(d), Reverse(w.slider_values)), IdIs), ValueIs)

\* C8: the filtered view holds exactly the rows of the cleaned frame that
\* satisfy every present clause at once (the categorical value if one is
\* selected, the identifier if one is selected, min <= value <= max for every
\* numerical column), and the clauses applied in the opposite order leave the
\* same rows.
C8_FilterIsConjunction ==
    \A s \in Sessions :
        filtered_data[s].defined =>
            /\ filtered_data[s].df = SelectRows(df[s], SatisfyingRows(df[s], widgets[s]))
            /\ ReverseOrderRows(df[s], widgets[s]) = SatisfyingRows(df[s], widgets[s])

\* A categorical value and a narrowed slider are set, neither clause alone
\* gives the view: the value keeps a row the slider drops.
C8_Witness ==
    /\ filtered_data[1].defined
    /\ widgets[1].selected_value # All
    /\ widgets[1].selected_customer_id = All
    /\ \E k \in 1..Len(widgets[1].slider_values) :
          widgets[1].slider_values[k].min_val = widgets[1].slider_values[k].max_val
    /\ NRows(filtered_data[1].df) = 0
    /\ \E r \in 1..NRows(df[1]) :
          df[1].cols[ColIndex(df[1], widgets[1].selected_column)].vals[r]
              = widgets[1].selected_value

ViewSummarized(s) ==
    /\ filtered_data[s].defined
    /\ widgets[s].selected_customer_id = All
    /\ pc[s] \notin {"filtered_summary"}

\* C9: the Summarizer never raises on a view of zero rows: once the summaries
\* of such a view were asked for, they are there and the run did not end in an
\* exception.
C9_SummarizerNeverRaises ==
    \A s \in Sessions :
        (ViewSummarized(s) /\ NRows(filtered_data[s].df) = 0) =>
            /\ pc[s] # "crashed"
            /\ summary[s].filtered.done

-----------------------------------------------------------------------------
(* The median imputation *)

\* The column of the frame before the cleaning that column i of the cleaned
\* frame comes from: the identifier has left the columns.
ColumnBefore(d, i) == set_index(d).cols[i].vals

Present(vals) == {r \in 1..Len(vals) : vals[r] # NaN}

\* The number in the middle of the present numbers of a column, or half the
\* sum of the two in the middle, in halves.
MiddleAt(vals, k) ==
    LET r == CHOOSE r \in Present(vals) :
                /\ Cardinality({q \in Present(vals) : vals[q].n < vals[r].n}) <= k
                /\ Cardinality({q \in Present(vals) : vals[q].n <= vals[r].n}) > k
    IN  vals[r].n

MedianOf(vals) ==
    LET count == Cardinality(Present(vals))
    IN  Num((MiddleAt(vals, (count - 1) \div 2) + MiddleAt(vals, count \div 2)) \div 2)

MedianImputed(old, new) ==
    \A r \in 1..Len(new) :
        /\ new[r] # NaN
        /\ new[r] = IF old[r] = NaN THEN MedianOf(old) ELSE SpelledNumber(old[r])

\* The statement of C11 as the spec words it: after cleaning no Numerical
\* column holds a missing value, every missing entry of a Numerical column
\* holds the median of the column's other entries, which are unchanged.
C11_EveryNumericalColumn ==
    [][\A s \in Sessions :
          CleanStep(s) =>
              \A i \in 1..Len(df'[s].cols) :
                  IsNumerical(df'[s].cols[i]) =>
                      MedianImputed(ColumnBefore(df[s], i), df'[s].cols[i].vals)]_vars

\* C11: after cleaning no Numerical column holds a missing value; in every
\* Numerical column other than CHURN every missing entry holds the median of
\* the column's other entries, which are unchanged (CHURN holds in its missing
\* entries its most frequent value).
C11_MedianImputed ==
    [][\A s \in Sessions :
          CleanStep(s) =>
              \A i \in 1..Len(df'[s].cols) :
                  IsNumerical(df'[s].cols[i]) =>
                      /\ \A r \in 1..Len(df'[s].cols[i].vals) : df'[s].cols[i].vals[r] # NaN
                      /\ df'[s].cols[i].name # CHURN =>
                            MedianImputed(ColumnBefore(df[s], i), df'[s].cols[i].vals)]_vars

\* MONTANT of 10, 30 and two missing entries was cleaned: the two hold 20.
C11_Witness ==
    /\ pc[1] = "summary"
    /\ HasUploadColumn(1, MONTANT)
    /\ Range(UploadCells(1, MONTANT)) = {"", "10", "30"}
    /\ Cardinality({r \in 1..Len(UploadCells(1, MONTANT)) : UploadCells(1, MONTANT)[r] = ""}) >= 2
    /\ \E r \in 1..Len(UploadCells(1, MONTANT)) :
          /\ UploadCells(1, MONTANT)[r] = ""
          /\ df[1].cols[ColIndex(df[1], MONTANT)].vals[r] = Whole(20)

-----------------------------------------------------------------------------
(* The column names *)

FirstUpper(name) == [i \in 1..Len(name) |-> IF i = 1 THEN upper(name[i]) ELSE name[i]]

\* C12: the normalization of the column names changes only the first
\* character: a name that starts with a lowercase letter comes out with that
\* letter in upper case and the other characters as they were, every other
\* name as it was.
C12_OnlyFirstCharacter ==
    [][\A s \in Sessions :
          CleanStep(s) =>
              \A i \in 1..Len(df'[s].cols) :
                  LET name == set_index(df[s]).cols[i].name
                  IN  df'[s].cols[i].name = IF islower(name[1]) THEN FirstUpper(name)
                                            ELSE name]_vars

-----------------------------------------------------------------------------
(* The coercion warning *)

\* C13: when the coercion of a column that must be numeric leaves missing
\* entries, all of them missing included, the warning is shown and the cycle
\* goes on through the cleaning to the display: it does not end in an exception.
C13_CoercionNonFatal ==
    \A s \in Sessions :
        ("coercion warning" \in msgs[s] /\ NRows(df[s]) > 0) => pc[s] # "crashed"

-----------------------------------------------------------------------------
(* The stored tables of one upload *)

\* C14: one upload gives at most one stored table: while the same file stays
\* selected, the cycles that follow add no table to the one stored for it.
\* (One session, one file, an empty store to begin with.)
C14_OneTablePerUpload ==
    \A u \in Users : Cardinality(DOMAIN FileOf(u)) <= 1

-----------------------------------------------------------------------------
(* A table without the target column *)

UploadColumns(s) ==
    [i \in 1..Len(uploaded_file[s].content) |-> uploaded_file[s].content[i].name]

NotChurn(name) == name # CHURN

LacksOnlyChurn(s) ==
    /\ uploaded_file[s].present
    /\ Parses(uploaded_file[s])
    /\ UploadColumns(s) = SelectSeq(columns(initial_df), NotChurn)

\* C15: the target column is optional: a table with every column of the
\* template but CHURN is cleaned and displayed, the cycle does not end in an
\* exception.
C15_ChurnOptional ==
    \A s \in Sessions : LacksOnlyChurn(s) => pc[s] # "crashed"

====
